---- MODULE Spec2Model ----
(***************************************************************************)
(* A model of core/validator_manager.go: the ValidatorManager of go-ibft.   *)
(* The manager keeps the validators' voting power and the quorum size of    *)
(* the current height behind a sync.RWMutex; Init replaces both, HasQuorum  *)
(* and HasPrepareQuorum read them.  Each goroutine calling into the manager *)
(* is a process; a call advances one source statement that touches shared   *)
(* state per step.                                                          *)
(***************************************************************************)
EXTENDS Integers, FiniteSets, Sequences, TLC

\* ------------------------------------------------------------------ bounds
\* Goroutines calling into one manager at the same time.
NumProcs == 2
\* Individual voting powers range over -1..MaxWeight, and HeavyWeight.
MaxWeight == 2
\* One validator far heavier than the others (the {A:10, B:1, C:1} shape).
HeavyWeight == 10
\* Longest prepare-message list passed to HasPrepareQuorum.
MaxMsgs == 2

Procs == 1..NumProcs
\* The goroutine of the sequential specification.
SeqProcs == {1}

\* Validator and sender addresses (byte strings; equality is byte equality).
Addrs == {"A", "B", "C"}

\* ---------------------------------------------------------------- values
\* A Go map[string]*big.Int: nil, or a finite function from addresses to
\* integers.  big.Int is unbounded, and so is Int.
EmptyKV == [a \in {} |-> 0]

NilMap == [isNil |-> TRUE, kv |-> EmptyKV]

MakeMap(f) == [isNil |-> FALSE, kv |-> f]

Weights == {-1} \cup (0..MaxWeight) \cup {HeavyWeight}

\* Every map over a subset of the addresses, and the nil map.
AllMaps ==
    {NilMap} \cup {MakeMap(f) : f \in UNION {[D -> Weights] : D \in SUBSET Addrs}}

\* The maps the backend hands out while several goroutines run: two with
\* no voting power (the nil map, every validator at 0) and two with some
\* (one validator, three equal validators; their quorum sizes differ).
SmallMaps ==
    {NilMap, MakeMap([a \in Addrs |-> 0]),
     MakeMap([a \in {"A"} |-> 1]), MakeMap([a \in Addrs |-> 1])}

\* The sender sets asked about while several goroutines run.
SmallSenderSets == {{}, {"A"}, Addrs}

\* stateType (the phases of the consensus state machine).
Phases == {"newRound", "prepare", "commit", "fin"}

\* A proto.Message, as far as the manager reads it.
Message(a) == [From |-> a]

\* *proto.Message: <<>> is the nil pointer, <<m>> points to m.
Proposals == {<<>>} \cup {<<Message(a)>> : a \in Addrs}

\* []*proto.Message up to MaxMsgs long.
MsgLists ==
    UNION {[1..n -> {Message(a) : a \in Addrs}] : n \in 0..MaxMsgs}

\* The error values Init returns.
ErrNil == "nil"
\* The errors the backend's GetVotingPowers may return.
BackendErrors == {"backend unavailable", "unknown height"}
errVotingPowerNotCorrect == "total voting power is zero or less"

\* What GetVotingPowers can return: one of maps and no error, or an error.
Replies(maps) ==
    {[vvp |-> m, err |-> ErrNil] : m \in maps}
        \cup {[vvp |-> NilMap, err |-> e] : e \in BackendErrors}

\* The log entries HasPrepareQuorum writes.
LogProposalNotSet == "HasPrepareQuorum - proposalMessage is not set"
LogProposerAmongSigners ==
    "HasPrepareQuorum - proposer is among signers but it is not expected to be"

\* ------------------------------------------------------- pure functions
\* big.Int.Div: Euclidean division (the remainder is never negative).
BigDiv(x, y) ==
    LET m == IF x < 0 THEN -x ELSE x
    IN  CHOOSE q \in (-m)..m : \E r \in 0..(y - 1) : x = q * y + r

RECURSIVE SumOver(_, _)
\* The sum of kv over the addresses of S (all of them keys of kv).
SumOver(kv, S) ==
    IF S = {} THEN 0
    ELSE LET a == CHOOSE x \in S : TRUE
         IN  kv[a] + SumOver(kv, S \ {a})

calculateTotalVotingPower(vvp) == SumOver(vvp.kv, DOMAIN vvp.kv)

\* A faulty calculateQuorum: the final Add of 1 is missing.
calculateQuorumWithoutOne(totalVotingPower) == BigDiv(totalVotingPower * 2, 3)

\* A faulty calculateQuorum: it divides by 3 before it doubles.
calculateQuorumDivideFirst(totalVotingPower) ==
    BigDiv(totalVotingPower, 3) * 2 + 1

calculateQuorum(totalVotingPower) == BigDiv(totalVotingPower * 2, 3) + 1

\* ------------------------------------------------------------------ state
VARIABLES
    validatorsVotingPower,  \* vm.validatorsVotingPower
    quorumSize,             \* vm.quorumSize
    minerAddress,           \* vm.minerAddress
    construction,           \* what NewValidatorManager has done and returned
    vpLock,                 \* vm.vpLock, the sync.RWMutex
    pc,                     \* where each goroutine is in its call
    loc,                    \* each goroutine's arguments, locals and results
    everInstalled           \* history: some Init has stored a voting power map

vars ==
    <<validatorsVotingPower, quorumSize, minerAddress, construction, vpLock,
      pc, loc, everInstalled>>

\* The fields of the manager that the lock guards.
stored == <<validatorsVotingPower, quorumSize>>

\* A goroutine's frame outside any call.  op is the exported method it
\* called; vvp, totalVotingPower and err belong to Init and
\* setCurrentVotingPower; sendersAddrs, rest, messageVotePower and ret to
\* HasQuorum; stateName, proposalMessage and msgs to HasPrepareQuorum.
\* backendCalls, backendErr, lockTaken, logged, hasQuorumCalls, readMaps and
\* readQuorum record what the call has done so far: its calls of the
\* backend and the error the backend gave, whether it has held the write
\* lock, its log entries, its calls of HasQuorum, and the values of the two
\* guarded fields it has read.
BlankLoc ==
    [op |-> "", vvp |-> NilMap, totalVotingPower |-> 0, err |-> ErrNil,
     sendersAddrs |-> {}, rest |-> {}, messageVotePower |-> 0, ret |-> FALSE,
     stateName |-> "", proposalMessage |-> <<>>, msgs |-> <<>>,
     backendCalls |-> 0, backendErr |-> ErrNil, lockTaken |-> FALSE,
     logged |-> <<>>,
     hasQuorumCalls |-> 0, readMaps |-> {}, readQuorum |-> {}]

\* The outcome of NewValidatorManager: state is "new" before the call, "ok"
\* when it returned a manager and "failed" when it returned nil and err.
\* minerCalls counts the calls of GetMinerAddress, backendAddr and
\* backendErr are what the backend returned.
NotConstructed ==
    [state |-> "new", err |-> ErrNil, minerCalls |-> 0,
     backendAddr |-> "", backendErr |-> ErrNil]

Constructed(address) ==
    [state |-> "ok", err |-> ErrNil, minerCalls |-> 1,
     backendAddr |-> address, backendErr |-> ErrNil]

\* NewValidatorManager has returned a manager: no voting power map, quorum
\* size 0, the miner address the backend gave, an unlocked mutex.
Init ==
    /\ validatorsVotingPower = NilMap
    /\ quorumSize = 0
    /\ minerAddress = "A"
    /\ construction = Constructed("A")
    /\ vpLock = [writer |-> {}, held |-> FALSE, readers |-> {}, blocked |-> {}]
    /\ pc = [p \in Procs |-> "idle"]
    /\ loc = [p \in Procs |-> BlankLoc]
    /\ everInstalled = FALSE

\* Before NewValidatorManager is called there is no manager.
InitNew ==
    /\ validatorsVotingPower = NilMap
    /\ quorumSize = 0
    /\ minerAddress = ""
    /\ construction = NotConstructed
    /\ vpLock = [writer |-> {}, held |-> FALSE, readers |-> {}, blocked |-> {}]
    /\ pc = [p \in Procs |-> "idle"]
    /\ loc = [p \in Procs |-> BlankLoc]
    /\ everInstalled = FALSE

\* What GetMinerAddress returns: an address, or no address and an error.
MinerReplies ==
    {[address |-> a, err |-> ErrNil] : a \in Addrs}
        \cup {[address |-> "", err |-> e] : e \in BackendErrors}

\* A faulty line 47: the backend's error is dropped.
MinerFetchFailedNever(err) == FALSE

\* Line 47: err != nil.
MinerFetchFailed(err) == err # ErrNil

\* Lines 45-59: NewValidatorManager asks the backend for the miner address
\* and returns nil and the backend's error, or a manager with that address,
\* quorum size 0 and no voting power map.
NewValidatorManager(replies) ==
    /\ construction.state = "new"
    /\ \E reply \in replies :
          IF MinerFetchFailed(reply.err)
          THEN /\ construction' = [state |-> "failed", err |-> reply.err,
                                   minerCalls |-> construction.minerCalls + 1,
                                   backendAddr |-> reply.address,
                                   backendErr |-> reply.err]
               /\ UNCHANGED <<stored, minerAddress>>
          ELSE /\ construction' = [state |-> "ok", err |-> ErrNil,
                                   minerCalls |-> construction.minerCalls + 1,
                                   backendAddr |-> reply.address,
                                   backendErr |-> reply.err]
               /\ minerAddress' = reply.address
               /\ validatorsVotingPower' = NilMap
               /\ quorumSize' = 0
    /\ UNCHANGED <<vpLock, pc, loc, everInstalled>>

\* ------------------------------------------------------------ sync.RWMutex
\* vpLock.writer is the goroutine, if any, that has called Lock and not yet
\* Unlock; held says that its Lock has returned.  readers are the goroutines
\* inside RLock..RUnlock, blocked those whose RLock waits for the writer.
\* Lock, first half: the writer takes the mutex's inner writer lock (one
\* writer at a time) and announces itself, which turns later readers away.
LockAnnounce(p) ==
    /\ vpLock.writer = {}
    /\ vpLock' = [vpLock EXCEPT !.writer = {p}]

\* Lock, second half: the writer holds the lock once the readers that were
\* inside when it announced itself have left.
LockAcquire(p) ==
    /\ vpLock.writer = {p}
    /\ ~vpLock.held
    /\ vpLock.readers = {}
    /\ vpLock' = [vpLock EXCEPT !.held = TRUE]

\* Unlock: the readers that were turned away enter together.
Unlock(p) ==
    vpLock' = [writer |-> {}, held |-> FALSE,
               readers |-> vpLock.blocked, blocked |-> {}]

\* A faulty RLock: readers enter whatever a writer does.
RLockFreeIgnoringWriter == TRUE

\* A faulty RLock: readers enter until the writer's Lock has returned.
RLockFreeUntilHeld == ~vpLock.held

\* RLock: enter unless a writer holds the lock or has announced itself.
RLockFree == vpLock.writer = {}

RLock(p) ==
    vpLock' = IF RLockFree
              THEN [vpLock EXCEPT !.readers = @ \cup {p}]
              ELSE [vpLock EXCEPT !.blocked = @ \cup {p}]

RUnlock(p) == vpLock' = [vpLock EXCEPT !.readers = @ \ {p}]

\* ------------------------------------------------------------------- Init
\* A faulty Init: it asks the backend for the miner address again.
InitCallRereadingMiner(p) ==
    /\ construction.state = "ok"
    /\ pc[p] = "idle"
    /\ \E a \in Addrs :
        /\ minerAddress' = a
        /\ construction' = [construction EXCEPT !.minerCalls = @ + 1,
                                                !.backendAddr = a]
    /\ pc' = [pc EXCEPT ![p] = "Init_63"]
    /\ loc' = [loc EXCEPT ![p].op = "Init", ![p].backendCalls = 1]
    /\ UNCHANGED <<stored, vpLock, everInstalled>>

\* A faulty Init: the write lock is taken before the backend is called.
InitCallUnderLock(p) ==
    /\ construction.state = "ok"
    /\ pc[p] = "idle"
    /\ vpLock.writer = {}
    /\ vpLock.readers = {}
    /\ vpLock' = [vpLock EXCEPT !.writer = {p}, !.held = TRUE]
    /\ pc' = [pc EXCEPT ![p] = "Init_63"]
    /\ loc' = [loc EXCEPT ![p].op = "Init", ![p].backendCalls = 1]
    /\ UNCHANGED <<stored, minerAddress, construction, everInstalled>>

\* Init calls the backend for the voting powers of the height.
InitCall(p) ==
    /\ construction.state = "ok"
    /\ pc[p] = "idle"
    /\ pc' = [pc EXCEPT ![p] = "Init_63"]
    /\ loc' = [loc EXCEPT ![p].op = "Init", ![p].backendCalls = 1]
    /\ UNCHANGED <<stored, minerAddress, construction, vpLock, everInstalled>>

\* A faulty line 64: the backend's error is dropped.
FetchFailedNever(err) == FALSE

\* Line 64: err != nil.
FetchFailed(err) == err # ErrNil

\* Lines 63-68: GetVotingPowers returns one of replies.  On an error Init
\* returns it; otherwise Init passes the map to setCurrentVotingPower.
GetVotingPowersReturns(p, replies) ==
    /\ pc[p] = "Init_63"
    /\ \E reply \in replies :
          IF FetchFailed(reply.err)
          THEN /\ loc' = [loc EXCEPT ![p].backendErr = reply.err,
                                     ![p].err = reply.err]
               /\ pc' = [pc EXCEPT ![p] = "done"]
          ELSE /\ loc' = [loc EXCEPT ![p].backendErr = reply.err,
                                     ![p].vvp = reply.vvp]
               /\ pc' = [pc EXCEPT ![p] = "scvp_74"]
    /\ UNCHANGED <<stored, minerAddress, construction, vpLock, everInstalled>>

\* setCurrentVotingPower, line 74: vm.vpLock.Lock() is called.
SetLock(p) ==
    /\ pc[p] = "scvp_74"
    /\ LockAnnounce(p)
    /\ pc' = [pc EXCEPT ![p] = "scvp_74w"]
    /\ UNCHANGED <<stored, minerAddress, construction, loc, everInstalled>>

\* Line 74: vm.vpLock.Lock() returns.
SetLocked(p) ==
    /\ pc[p] = "scvp_74w"
    /\ LockAcquire(p)
    /\ pc' = [pc EXCEPT ![p] = "scvp_77"]
    /\ loc' = [loc EXCEPT ![p].lockTaken = TRUE]
    /\ UNCHANGED <<stored, minerAddress, construction, everInstalled>>

\* A faulty line 78: only a negative total is rejected.
TotalRejectedOnlyNegative(totalVotingPower) == totalVotingPower < 0

\* Line 78: the total voting power is not positive.
TotalRejected(totalVotingPower) == totalVotingPower <= 0

\* Lines 77-80: the total of the new map; not positive is an error.
SetCheckTotal(p) ==
    /\ pc[p] = "scvp_77"
    /\ LET totalVotingPower == calculateTotalVotingPower(loc[p].vvp)
       IN  IF TotalRejected(totalVotingPower)
           THEN /\ loc' = [loc EXCEPT ![p].totalVotingPower = totalVotingPower,
                                      ![p].err = errVotingPowerNotCorrect]
                /\ pc' = [pc EXCEPT ![p] = "scvp_75"]
           ELSE /\ loc' = [loc EXCEPT ![p].totalVotingPower = totalVotingPower]
                /\ pc' = [pc EXCEPT ![p] = "scvp_82"]
    /\ UNCHANGED <<stored, minerAddress, construction, vpLock, everInstalled>>

\* A faulty line 82: the new entries are added to the stored map, whose
\* other entries stay.
SetStoreVotingPowerMerging(p) ==
    /\ pc[p] = "scvp_82"
    /\ validatorsVotingPower' =
          MakeMap([a \in DOMAIN validatorsVotingPower.kv \cup DOMAIN loc[p].vvp.kv |->
                      IF a \in DOMAIN loc[p].vvp.kv
                      THEN loc[p].vvp.kv[a]
                      ELSE validatorsVotingPower.kv[a]])
    /\ everInstalled' = TRUE
    /\ pc' = [pc EXCEPT ![p] = "scvp_83"]
    /\ UNCHANGED <<quorumSize, minerAddress, construction, vpLock, loc>>

\* Line 82: vm.validatorsVotingPower = validatorsVotingPower.
SetStoreVotingPower(p) ==
    /\ pc[p] = "scvp_82"
    /\ validatorsVotingPower' = loc[p].vvp
    /\ everInstalled' = TRUE
    /\ pc' = [pc EXCEPT ![p] = "scvp_83"]
    /\ UNCHANGED <<quorumSize, minerAddress, construction, vpLock, loc>>

\* Line 83: vm.quorumSize = calculateQuorum(totalVotingPower).
SetStoreQuorum(p) ==
    /\ pc[p] = "scvp_83"
    /\ quorumSize' = calculateQuorum(loc[p].totalVotingPower)
    /\ pc' = [pc EXCEPT ![p] = "scvp_75"]
    /\ UNCHANGED <<validatorsVotingPower, minerAddress, construction,
                   vpLock, loc, everInstalled>>

\* Line 75, deferred: vm.vpLock.Unlock(); setCurrentVotingPower and Init
\* return.
SetUnlock(p) ==
    /\ pc[p] = "scvp_75"
    /\ Unlock(p)
    /\ pc' = [pc EXCEPT ![p] = "done"]
    /\ UNCHANGED <<stored, minerAddress, construction, loc, everInstalled>>

\* -------------------------------------------------------------- HasQuorum
\* HasQuorum is called with one of senderSets.
HasQuorumCall(p, senderSets) ==
    /\ construction.state = "ok"
    /\ pc[p] = "idle"
    /\ \E sendersAddrs \in senderSets :
          loc' = [loc EXCEPT ![p].op = "HasQuorum",
                             ![p].sendersAddrs = sendersAddrs,
                             ![p].hasQuorumCalls = 1]
    /\ pc' = [pc EXCEPT ![p] = "HasQuorum_90"]
    /\ UNCHANGED <<stored, minerAddress, construction, vpLock, everInstalled>>

\* Line 90: vm.vpLock.RLock() is called; it returns at once unless a writer
\* is inside or waiting.
HasQuorumRLock(p) ==
    /\ pc[p] = "HasQuorum_90"
    /\ RLock(p)
    /\ pc' = [pc EXCEPT ![p] = IF RLockFree THEN "HasQuorum_94" ELSE "HasQuorum_90w"]
    /\ UNCHANGED <<stored, minerAddress, construction, loc, everInstalled>>

\* Line 90: vm.vpLock.RLock() returns after the writer's Unlock.
HasQuorumRLocked(p) ==
    /\ pc[p] = "HasQuorum_90w"
    /\ p \in vpLock.readers
    /\ pc' = [pc EXCEPT ![p] = "HasQuorum_94"]
    /\ UNCHANGED <<stored, minerAddress, construction,
                   vpLock, loc, everInstalled>>

\* A faulty line 94: the nil check is missing.
NotInitializedNeverChecked(vvp) == FALSE

\* Line 94: the manager holds no voting power map.
NotInitialized(vvp) == vvp.isNil

\* Lines 94-98: without a voting power map the answer is false.
HasQuorumCheckNil(p) ==
    /\ pc[p] = "HasQuorum_94"
    /\ IF NotInitialized(validatorsVotingPower)
       THEN /\ loc' = [loc EXCEPT ![p].readMaps = @ \cup {validatorsVotingPower},
                                  ![p].ret = FALSE]
            /\ pc' = [pc EXCEPT ![p] = "HasQuorum_91"]
       ELSE /\ loc' = [loc EXCEPT ![p].readMaps = @ \cup {validatorsVotingPower},
                                  ![p].rest = loc[p].sendersAddrs,
                                  ![p].messageVotePower = 0]
            /\ pc' = [pc EXCEPT ![p] = "HasQuorum_100"]
    /\ UNCHANGED <<stored, minerAddress, construction, vpLock, everInstalled>>

\* A faulty line 101: a sender that is no validator counts for 1.
VoteOfCountingUnknown(vvp, from) ==
    IF from \in DOMAIN vvp.kv THEN vvp.kv[from] ELSE 1

\* Line 101: vote, ok := vm.validatorsVotingPower[from]; the power added
\* for from is vote when ok and nothing otherwise.
VoteOf(vvp, from) == IF from \in DOMAIN vvp.kv THEN vvp.kv[from] ELSE 0

\* Lines 100-104: one iteration of the range over sendersAddrs, which
\* visits the senders in any order.
HasQuorumAddVote(p) ==
    /\ pc[p] = "HasQuorum_100"
    /\ \E from \in loc[p].rest :
          loc' = [loc EXCEPT ![p].readMaps = @ \cup {validatorsVotingPower},
                             ![p].rest = @ \ {from},
                             ![p].messageVotePower =
                                 @ + VoteOf(validatorsVotingPower, from)]
    /\ UNCHANGED <<stored, minerAddress, construction,
                   vpLock, pc, everInstalled>>

\* A faulty line 107: the comparison is strict.
ReachesQuorumStrict(messageVotePower, quorum) == messageVotePower > quorum

\* Line 107: messageVotePower.Cmp(vm.quorumSize) >= 0.
ReachesQuorum(messageVotePower, quorum) == messageVotePower >= quorum

\* Line 107: the range is over; the answer is the comparison with the
\* quorum size.
HasQuorumCompare(p) ==
    /\ pc[p] = "HasQuorum_100"
    /\ loc[p].rest = {}
    /\ loc' = [loc EXCEPT ![p].readQuorum = @ \cup {quorumSize},
                          ![p].ret = ReachesQuorum(loc[p].messageVotePower,
                                                   quorumSize)]
    /\ pc' = [pc EXCEPT ![p] = "HasQuorum_91"]
    /\ UNCHANGED <<stored, minerAddress, construction, vpLock, everInstalled>>

\* Lines 94-107 on one snapshot of the two fields: the answer of
\* HasQuorum(sendersAddrs) when the map is vvp and the quorum size quorum.
HasQuorumResult(vvp, quorum, sendersAddrs) ==
    IF NotInitialized(vvp)
    THEN FALSE
    ELSE ReachesQuorum(SumOver([a \in sendersAddrs |-> VoteOf(vvp, a)],
                               sendersAddrs),
                       quorum)

\* Line 91, deferred: vm.vpLock.RUnlock(); HasQuorum returns, and with it
\* HasPrepareQuorum when that was the caller (line 138).
HasQuorumRUnlock(p) ==
    /\ pc[p] = "HasQuorum_91"
    /\ RUnlock(p)
    /\ pc' = [pc EXCEPT ![p] = "done"]
    /\ UNCHANGED <<stored, minerAddress, construction, loc, everInstalled>>

\* ------------------------------------------------------- HasPrepareQuorum
RECURSIVE ScanPrepares(_, _, _, _)
\* Lines 128-136 from message i on: the scan stops at the first message
\* sent by the proposer, and otherwise collects the senders.
ScanPrepares(proposerAddress, msgs, i, sendersAddressesMap) ==
    IF i > Len(msgs)
    THEN [proposerAmongSigners |-> FALSE, senders |-> sendersAddressesMap]
    ELSE IF msgs[i].From = proposerAddress
         THEN [proposerAmongSigners |-> TRUE, senders |-> sendersAddressesMap]
         ELSE ScanPrepares(proposerAddress, msgs, i + 1,
                           sendersAddressesMap \cup {msgs[i].From})

\* A faulty sender set: the proposer is left out of it.
PrepareSendersWithoutProposer(proposalMessage, msgs) ==
    ScanPrepares(proposalMessage[1].From, msgs, 1, {})

\* A faulty scan: a prepare message from the proposer is let through.
PrepareSendersUnchecked(proposalMessage, msgs) ==
    [proposerAmongSigners |-> FALSE,
     senders |-> {proposalMessage[1].From}
                     \cup {msgs[i].From : i \in 1..Len(msgs)}]

\* Lines 123-136: the sender set starts with the proposer.
PrepareSenders(proposalMessage, msgs) ==
    LET proposerAddress == proposalMessage[1].From
    IN  ScanPrepares(proposerAddress, msgs, 1, {proposerAddress})

\* A faulty line 116: the missing proposal is logged in every state.
LogForNilProposalAlways(stateName) == <<LogProposalNotSet>>

\* Line 116: the log entry for a missing proposal.
LogForNilProposal(stateName) ==
    IF stateName = "prepare" THEN <<LogProposalNotSet>> ELSE <<>>

\* Lines 111-138 up to the call of HasQuorum: these lines read the
\* arguments only.  A nil proposal answers false (logged in the prepare
\* state); a message from the proposer answers false and is logged;
\* otherwise HasQuorum is called with the senders.
HasPrepareQuorumCall(p, phases, proposals, msgLists) ==
    /\ construction.state = "ok"
    /\ pc[p] = "idle"
    /\ \E stateName \in phases, proposalMessage \in proposals, msgs \in msgLists :
          LET args == [loc[p] EXCEPT !.op = "HasPrepareQuorum",
                                     !.stateName = stateName,
                                     !.proposalMessage = proposalMessage,
                                     !.msgs = msgs]
          IN  IF proposalMessage = <<>>
              THEN /\ loc' = [loc EXCEPT ![p] =
                                [args EXCEPT !.logged = LogForNilProposal(stateName),
                                             !.ret = FALSE]]
                   /\ pc' = [pc EXCEPT ![p] = "done"]
              ELSE LET scan == PrepareSenders(proposalMessage, msgs)
                   IN  IF scan.proposerAmongSigners
                       THEN /\ loc' = [loc EXCEPT ![p] =
                                         [args EXCEPT !.logged = <<LogProposerAmongSigners>>,
                                                      !.ret = FALSE]]
                            /\ pc' = [pc EXCEPT ![p] = "done"]
                       ELSE /\ loc' = [loc EXCEPT ![p] =
                                         [args EXCEPT !.sendersAddrs = scan.senders,
                                                      !.hasQuorumCalls = 1]]
                            /\ pc' = [pc EXCEPT ![p] = "HasQuorum_90"]
    /\ UNCHANGED <<stored, minerAddress, construction, vpLock, everInstalled>>

\* The caller takes the result; the goroutine is free for its next call.
Return(p) ==
    /\ pc[p] = "done"
    /\ pc' = [pc EXCEPT ![p] = "idle"]
    /\ loc' = [loc EXCEPT ![p] = BlankLoc]
    /\ UNCHANGED <<stored, minerAddress, construction, vpLock, everInstalled>>

\* ---------------------------------------------------------- specifications
\* Several goroutines call Init, HasQuorum and HasPrepareQuorum at will.
Next ==
    \E p \in Procs :
        \/ InitCall(p)
        \/ GetVotingPowersReturns(p, Replies(SmallMaps))
        \/ SetLock(p)
        \/ SetLocked(p)
        \/ SetCheckTotal(p)
        \/ SetStoreVotingPower(p)
        \/ SetStoreQuorum(p)
        \/ SetUnlock(p)
        \/ HasQuorumCall(p, SmallSenderSets)
        \/ HasQuorumRLock(p)
        \/ HasQuorumRLocked(p)
        \/ HasQuorumCheckNil(p)
        \/ HasQuorumAddVote(p)
        \/ HasQuorumCompare(p)
        \/ HasQuorumRUnlock(p)
        \/ HasPrepareQuorumCall(p, {"prepare"}, {<<Message("A")>>}, {<<Message("B")>>})
        \/ Return(p)

Spec == Init /\ [][Next]_vars

\* One goroutine makes one call after another, with every map the backend
\* can return and every argument.
NextSeq ==
    \E p \in SeqProcs :
        \/ InitCall(p)
        \/ GetVotingPowersReturns(p, Replies(AllMaps))
        \/ SetLock(p)
        \/ SetLocked(p)
        \/ SetCheckTotal(p)
        \/ SetStoreVotingPower(p)
        \/ SetStoreQuorum(p)
        \/ SetUnlock(p)
        \/ HasQuorumCall(p, SUBSET Addrs)
        \/ HasQuorumRLock(p)
        \/ HasQuorumCheckNil(p)
        \/ HasQuorumAddVote(p)
        \/ HasQuorumCompare(p)
        \/ HasQuorumRUnlock(p)
        \/ HasPrepareQuorumCall(p, Phases, Proposals, MsgLists)
        \/ Return(p)

SpecSeq == Init /\ [][NextSeq]_vars

\* The backend keeps the map it returned from GetVotingPowers, and line 82
\* stores that very map, not a copy: when the backend later sets, adds or
\* deletes an entry of it, the map the manager reads is another.  The
\* backend takes no lock of the manager for this.
BackendModifiesReturnedMap(maps) ==
    /\ ~validatorsVotingPower.isNil
    /\ \E m \in maps :
        /\ ~m.isNil
        /\ m # validatorsVotingPower
        /\ validatorsVotingPower' = m
    /\ UNCHANGED <<quorumSize, minerAddress, construction,
                   vpLock, pc, loc, everInstalled>>

\* One goroutine calls the manager while the backend is free to modify the
\* maps it has returned.
NextAlias ==
    \/ \E p \in SeqProcs :
        \/ InitCall(p)
        \/ GetVotingPowersReturns(p, Replies(SmallMaps))
        \/ SetLock(p)
        \/ SetLocked(p)
        \/ SetCheckTotal(p)
        \/ SetStoreVotingPower(p)
        \/ SetStoreQuorum(p)
        \/ SetUnlock(p)
        \/ HasQuorumCall(p, SmallSenderSets)
        \/ HasQuorumRLock(p)
        \/ HasQuorumCheckNil(p)
        \/ HasQuorumAddVote(p)
        \/ HasQuorumCompare(p)
        \/ HasQuorumRUnlock(p)
        \/ HasPrepareQuorumCall(p, {"prepare"}, {<<Message("A")>>}, {<<Message("B")>>})
        \/ Return(p)
    \/ BackendModifiesReturnedMap(SmallMaps)

SpecAlias == Init /\ [][NextAlias]_vars

\* The maps and sender sets of the runs that are checked for progress: a
\* map that Init rejects, one that it installs, one sender set.
FairMaps == {MakeMap([a \in Addrs |-> 0]), MakeMap([a \in Addrs |-> 1])}

FairSenderSets == {Addrs}

NextFair ==
    \E p \in Procs :
        \/ InitCall(p)
        \/ GetVotingPowersReturns(p, Replies(FairMaps))
        \/ SetLock(p)
        \/ SetLocked(p)
        \/ SetCheckTotal(p)
        \/ SetStoreVotingPower(p)
        \/ SetStoreQuorum(p)
        \/ SetUnlock(p)
        \/ HasQuorumCall(p, FairSenderSets)
        \/ HasQuorumRLock(p)
        \/ HasQuorumRLocked(p)
        \/ HasQuorumCheckNil(p)
        \/ HasQuorumAddVote(p)
        \/ HasQuorumCompare(p)
        \/ HasQuorumRUnlock(p)
        \/ HasPrepareQuorumCall(p, {"prepare"}, {<<Message("A")>>}, {<<Message("B")>>})
        \/ Return(p)

\* The steps a goroutine takes by itself once it is inside a call and, for
\* Init, the backend has returned.  The Go scheduler runs every runnable
\* goroutine, so each of them is taken if it stays possible: that a caller
\* calls again and that the backend returns are not among them.
GoroutineStep(p) ==
    \/ SetLocked(p)
    \/ SetCheckTotal(p)
    \/ SetStoreVotingPower(p)
    \/ SetStoreQuorum(p)
    \/ SetUnlock(p)
    \/ HasQuorumRLock(p)
    \/ HasQuorumRLocked(p)
    \/ HasQuorumCheckNil(p)
    \/ HasQuorumAddVote(p)
    \/ HasQuorumCompare(p)
    \/ HasQuorumRUnlock(p)

\* Lock on the writer side of sync.RWMutex is a sync.Mutex, which hands
\* itself to a goroutine that has waited for it (starvation mode): a writer
\* that can take it again and again does take it.
Fairness ==
    \A p \in Procs : WF_vars(GoroutineStep(p)) /\ SF_vars(SetLock(p))

SpecFair == Init /\ [][NextFair]_vars /\ Fairness

\* The manager is constructed, if the backend lets it be, and then called
\* by one goroutine.
NextNew ==
    \/ NewValidatorManager(MinerReplies)
    \/ \E p \in SeqProcs :
        \/ InitCall(p)
        \/ GetVotingPowersReturns(p, Replies(SmallMaps))
        \/ SetLock(p)
        \/ SetLocked(p)
        \/ SetCheckTotal(p)
        \/ SetStoreVotingPower(p)
        \/ SetStoreQuorum(p)
        \/ SetUnlock(p)
        \/ HasQuorumCall(p, SmallSenderSets)
        \/ HasQuorumRLock(p)
        \/ HasQuorumCheckNil(p)
        \/ HasQuorumAddVote(p)
        \/ HasQuorumCompare(p)
        \/ HasQuorumRUnlock(p)
        \/ HasPrepareQuorumCall(p, {"prepare"}, {<<Message("A")>>}, {<<Message("B")>>})
        \/ Return(p)

SpecNew == InitNew /\ [][NextNew]_vars

\* ------------------------------------------------------------- properties
\* The total power of a weight mapping, and the Byzantine quorum threshold
\* floor(2T/3)+1 of a total, as the specification states them.
TotalPower(W) == SumOver(W.kv, DOMAIN W.kv)

Threshold(T) == ((2 * T) \div 3) + 1

\* The stored pair is the initial one, or a mapping of positive total with
\* the threshold of exactly that mapping.
PairConsistent(W, q) ==
    \/ W.isNil /\ q = 0
    \/ ~W.isNil /\ TotalPower(W) > 0 /\ q = Threshold(TotalPower(W))

InitDone(p) == pc[p] = "done" /\ loc[p].op = "Init"

\* C1: whenever no Init is inside the write-locked section of
\* setCurrentVotingPower, whatever Init calls have succeeded or failed
\* before and whichever are still running, the stored mapping is nil and
\* the threshold 0, or the mapping is set, its total is positive and the
\* threshold is floor(2T/3)+1 of that mapping.
C1_StoredPairConsistent ==
    ~vpLock.held => PairConsistent(validatorsVotingPower, quorumSize)

\* C1's case: one Init has failed and another, running beside it, has
\* succeeded and stored its mapping.
C1_Witness ==
    \E p, q \in Procs :
        /\ InitDone(p) /\ loc[p].err = errVotingPowerNotCorrect
        /\ InitDone(q) /\ loc[q].err = ErrNil
        /\ ~vpLock.held
        /\ validatorsVotingPower = loc[q].vvp
        /\ ~validatorsVotingPower.isNil

\* C2: every HasQuorum call answers from one snapshot: it has read at most
\* one voting power map, however many times it read the field, and the
\* threshold it compared against is the threshold of that map; a call that
\* has read the nil map has read no threshold.
C2_ReadsOneSnapshot ==
    \A p \in Procs :
        /\ Cardinality(loc[p].readMaps) <= 1
        /\ \A q \in loc[p].readQuorum :
              \E W \in loc[p].readMaps :
                  ~W.isNil /\ q = Threshold(TotalPower(W))

\* C2's case: a HasQuorum call has read the map and the threshold of one
\* snapshot while an Init with another accepted map waits for the write
\* lock.
C2_Witness ==
    \E p, q \in Procs :
        /\ pc[p] = "HasQuorum_91"
        /\ loc[p].readQuorum # {}
        /\ pc[q] = "scvp_74w"
        /\ TotalPower(loc[q].vvp) > 0
        /\ loc[q].vvp # validatorsVotingPower

\* C3: while no Init has stored a map, HasQuorum returns false for every
\* sender set.
C3_UninitializedNoQuorum ==
    \A p \in Procs :
        (pc[p] = "done" /\ loc[p].op = "HasQuorum" /\ ~everInstalled)
            => loc[p].ret = FALSE

\* C3's case: the empty sender set, after a failed Init, with the stored
\* threshold still 0.
C3_Witness ==
    \E p, q \in Procs :
        /\ pc[p] = "done" /\ loc[p].op = "HasQuorum"
        /\ loc[p].sendersAddrs = {}
        /\ ~everInstalled
        /\ quorumSize = 0
        /\ InitDone(q) /\ loc[q].err = errVotingPowerNotCorrect

\* The senders of S that are validators of W.
Known(W, S) == S \cap DOMAIN W.kv

\* The two validator sets of the examples: three equal validators, and
\* one validator heavier than the other two together.
EqualValidators == MakeMap([a \in Addrs |-> 1])

HeavyValidator == MakeMap([a \in Addrs |-> IF a = "A" THEN HeavyWeight ELSE 1])

\* C4: on an initialized manager, HasQuorum(S) is true exactly when the
\* weights of the senders of S that are keys of the stored mapping sum to
\* at least floor(2T/3)+1 (at least, not more than); with {A:1, B:1, C:1}
\* only {A, B, C} has quorum, and with {A: heavy, B:1, C:1} {A} has quorum
\* and {B, C} has not.
C4_QuorumIffThreshold ==
    \A p \in Procs :
        (pc[p] = "HasQuorum_91" /\ ~validatorsVotingPower.isNil)
            => /\ loc[p].ret
                   <=> SumOver(validatorsVotingPower.kv,
                               Known(validatorsVotingPower, loc[p].sendersAddrs))
                          >= Threshold(TotalPower(validatorsVotingPower))
               /\ validatorsVotingPower = EqualValidators
                   => (loc[p].ret <=> loc[p].sendersAddrs = Addrs)
               /\ validatorsVotingPower = HeavyValidator
                   => /\ loc[p].sendersAddrs = {"A"} => loc[p].ret
                      /\ loc[p].sendersAddrs = {"B", "C"} => ~loc[p].ret

\* C4's case: with {A: heavy, B: 1, C: 1} the sender set {A} has quorum.
C4_Witness ==
    \E p \in Procs :
        /\ pc[p] = "HasQuorum_91"
        /\ validatorsVotingPower = HeavyValidator
        /\ loc[p].sendersAddrs = {"A"}
        /\ loc[p].ret = TRUE

\* An Init call whose backend call returned a map of total power <= 0.
InitFailing(p) ==
    /\ loc[p].op = "Init"
    /\ pc[p] \in {"scvp_74", "scvp_74w", "scvp_77", "scvp_82", "scvp_83",
                  "scvp_75", "done"}
    /\ loc[p].backendErr = ErrNil
    /\ TotalPower(loc[p].vvp) <= 0

\* C5: an Init whose fetched map has total power <= 0 (the nil map, the
\* empty map, zeros, a negative total) returns errVotingPowerNotCorrect,
\* and no step of that call, from the backend's answer to the return,
\* changes the stored mapping or the stored threshold.
C5_NonPositiveTotalRejected ==
    /\ [](\A p \in Procs :
            (InitDone(p) /\ InitFailing(p))
                => loc[p].err = errVotingPowerNotCorrect)
    /\ [][\A p \in Procs :
            ((InitFailing(p) \/ InitFailing(p)') /\ pc'[p] # pc[p])
                => UNCHANGED stored]_vars

\* C5's case: the empty map is rejected while the manager holds the map
\* and threshold of an earlier height.
C5_Witness ==
    \E p \in Procs :
        /\ InitDone(p)
        /\ loc[p].vvp = MakeMap(EmptyKV)
        /\ loc[p].err = errVotingPowerNotCorrect
        /\ ~validatorsVotingPower.isNil
        /\ quorumSize = Threshold(TotalPower(validatorsVotingPower))

\* C6: an Init whose GetVotingPowers failed returns the backend's error,
\* has called the backend once, has never held the write lock, and returns
\* in the step in which the backend answers, a step that leaves the stored
\* mapping, the stored threshold and the lock as they were.
C6_BackendErrorPropagated ==
    /\ [](\A p \in Procs :
            (InitDone(p) /\ loc[p].backendErr # ErrNil)
                => /\ loc[p].err = loc[p].backendErr
                   /\ loc[p].backendCalls = 1
                   /\ ~loc[p].lockTaken)
    /\ [][\A p \in Procs :
            (pc[p] = "Init_63" /\ loc'[p].backendErr # ErrNil)
                => pc'[p] = "done" /\ UNCHANGED <<stored, vpLock>>]_vars

\* C6's case: the backend fails while the manager holds an earlier
\* height's map.
C6_Witness ==
    \E p \in Procs :
        /\ InitDone(p)
        /\ loc[p].backendErr \in BackendErrors
        /\ loc[p].err = loc[p].backendErr
        /\ ~validatorsVotingPower.isNil

NonNegative(W) == \A a \in DOMAIN W.kv : W.kv[a] >= 0

\* The weight of the validators that are in both sender sets.
OverlapWeight(W, S1, S2) == SumOver(W.kv, Known(W, S1 \cap S2))

\* C7: under a stored snapshot with non-negative weights and total T, when
\* HasQuorum answers true for a sender set S1, every sender set S2 that
\* also has quorum under that snapshot shares with S1 validators of combined
\* weight greater than floor((T-1)/3); so S1 and S2 are not disjoint.
C7_QuorumsOverlap ==
    \A p \in Procs :
        (/\ pc[p] = "HasQuorum_91"
         /\ loc[p].ret = TRUE
         /\ NonNegative(validatorsVotingPower))
            => \A S2 \in SUBSET Addrs :
                  HasQuorumResult(validatorsVotingPower, quorumSize, S2)
                      => /\ OverlapWeight(validatorsVotingPower,
                                          loc[p].sendersAddrs, S2)
                               > (TotalPower(validatorsVotingPower) - 1) \div 3
                         /\ loc[p].sendersAddrs \cap S2 # {}

\* C7's case: two quorums neither of which contains the other.
C7_Witness ==
    \E p \in Procs, S2 \in SUBSET Addrs :
        /\ pc[p] = "HasQuorum_91"
        /\ loc[p].ret = TRUE
        /\ NonNegative(validatorsVotingPower)
        /\ HasQuorumResult(validatorsVotingPower, quorumSize, S2)
        /\ ~(S2 \subseteq loc[p].sendersAddrs)
        /\ ~(loc[p].sendersAddrs \subseteq S2)

\* C8: the quorum size setCurrentVotingPower has stored for a total T > 0
\* is floor(2T/3)+1, and lies between 1 and T.
C8_QuorumFormula ==
    \A p \in Procs :
        (pc[p] = "scvp_75" /\ loc[p].err = ErrNil
                           /\ loc[p].totalVotingPower > 0)
            => /\ quorumSize = Threshold(loc[p].totalVotingPower)
               /\ 1 <= quorumSize
               /\ quorumSize <= loc[p].totalVotingPower

\* C8's case: total 2, where the quorum size is the whole total.
C8_Witness ==
    \E p \in Procs :
        /\ pc[p] = "scvp_75" /\ loc[p].err = ErrNil
        /\ loc[p].totalVotingPower = 2
        /\ quorumSize = 2

HasPrepareQuorumCalled(p) == loc[p].op = "HasPrepareQuorum"

\* Some prepare message of the call is from the proposer.
ProposerAmongPrepares(p) ==
    /\ loc[p].proposalMessage # <<>>
    /\ \E i \in 1..Len(loc[p].msgs) :
          loc[p].msgs[i].From = loc[p].proposalMessage[1].From

\* C9: a HasPrepareQuorum call with a prepare message from the proposer
\* has returned false, without calling HasQuorum and without reading the
\* stored map or threshold.
C9_ProposerPrepareRejected ==
    \A p \in Procs :
        (HasPrepareQuorumCalled(p) /\ ProposerAmongPrepares(p))
            => /\ pc[p] = "done"
               /\ loc[p].ret = FALSE
               /\ loc[p].hasQuorumCalls = 0
               /\ loc[p].readMaps = {} /\ loc[p].readQuorum = {}

\* C9's case: the proposer and the prepare senders together have quorum.
C9_Witness ==
    \E p \in Procs :
        /\ HasPrepareQuorumCalled(p) /\ ProposerAmongPrepares(p)
        /\ pc[p] = "done"
        /\ loc[p].msgs[1].From # loc[p].proposalMessage[1].From
        /\ HasQuorumResult(validatorsVotingPower, quorumSize,
                           {loc[p].proposalMessage[1].From}
                               \cup {loc[p].msgs[i].From : i \in 1..Len(loc[p].msgs)})

\* C10: a HasPrepareQuorum call with a nil proposal has returned false,
\* with one log entry when the state is prepare and none otherwise.
C10_NilProposal ==
    \A p \in Procs :
        (HasPrepareQuorumCalled(p) /\ loc[p].proposalMessage = <<>>)
            => /\ pc[p] = "done"
               /\ loc[p].ret = FALSE
               /\ Len(loc[p].logged) = IF loc[p].stateName = "prepare" THEN 1 ELSE 0

\* C10's case: the prepare state, with prepare messages at hand.
C10_Witness ==
    \E p \in Procs :
        /\ HasPrepareQuorumCalled(p) /\ loc[p].proposalMessage = <<>>
        /\ loc[p].stateName = "prepare"
        /\ loc[p].msgs # <<>>
        /\ loc[p].logged = <<LogProposalNotSet>>

\* The proposer and the senders of the prepare messages of a call.
ProposerAndPrepareSenders(p) ==
    {loc[p].proposalMessage[1].From}
        \cup {loc[p].msgs[i].From : i \in 1..Len(loc[p].msgs)}

\* The call has a proposal and no prepare message from the proposer.
WellFormedPrepare(p) ==
    /\ HasPrepareQuorumCalled(p)
    /\ loc[p].proposalMessage # <<>>
    /\ ~ProposerAmongPrepares(p)

\* C11: with a proposal and no prepare message from the proposer,
\* HasPrepareQuorum calls HasQuorum once, in every phase, with exactly the
\* set of the proposer and the prepare senders, and returns its answer: the
\* weight of that set of addresses, each counted once, against the stored
\* threshold.
C11_PrepareDelegates ==
    \A p \in Procs :
        WellFormedPrepare(p)
            => /\ loc[p].hasQuorumCalls = 1
               /\ loc[p].sendersAddrs = ProposerAndPrepareSenders(p)
               /\ pc[p] = "done"
                   => (loc[p].ret
                          <=> /\ ~validatorsVotingPower.isNil
                              /\ SumOver(validatorsVotingPower.kv,
                                         Known(validatorsVotingPower,
                                               ProposerAndPrepareSenders(p)))
                                     >= quorumSize)

\* C11's case: two prepare messages from one sender and the proposer fall
\* short of a quorum that three weights would reach, outside the prepare
\* phase.
C11_Witness ==
    \E p \in Procs :
        /\ WellFormedPrepare(p)
        /\ pc[p] = "done"
        /\ loc[p].stateName = "commit"
        /\ Len(loc[p].msgs) = 2
        /\ loc[p].msgs[1] = loc[p].msgs[2]
        /\ validatorsVotingPower = EqualValidators
        /\ loc[p].ret = FALSE

\* C12: senders that are not validators of the stored map count for
\* nothing: the answer of a HasQuorum call is the answer for its sender set
\* without any of its unknown addresses.
C12_UnknownSendersIgnored ==
    \A p \in Procs :
        pc[p] = "HasQuorum_91"
            => \A Z \in SUBSET (loc[p].sendersAddrs \ DOMAIN validatorsVotingPower.kv) :
                  loc[p].ret = HasQuorumResult(validatorsVotingPower, quorumSize,
                                               loc[p].sendersAddrs \ Z)

\* C12's case: a quorum of validators asked about together with an address
\* that is no validator.
C12_Witness ==
    \E p \in Procs :
        /\ pc[p] = "HasQuorum_91"
        /\ loc[p].op = "HasQuorum"
        /\ ~validatorsVotingPower.isNil
        /\ loc[p].sendersAddrs \ DOMAIN validatorsVotingPower.kv # {}
        /\ loc[p].ret = TRUE

\* A step of a successful Init that stores a guarded field (line 82 or 83).
InstallStep ==
    \E p \in Procs :
        /\ loc[p].op = "Init"
        /\ loc[p].err = ErrNil
        /\ pc[p] \in {"scvp_82", "scvp_83"}
        /\ pc'[p] # pc[p]

\* C13: the stored map and the stored threshold change in no step but the
\* one in which a successful Init stores them, whatever the backend does
\* with the map it returned, and stay consistent whenever no Init holds the
\* write lock.
C13_StoredChangesOnlyByInit ==
    /\ [][stored' # stored => InstallStep]_vars
    /\ [](~vpLock.held => PairConsistent(validatorsVotingPower, quorumSize))

\* The positions of setCurrentVotingPower between Lock and Unlock.
WriterSection == {"scvp_74w", "scvp_77", "scvp_82", "scvp_83", "scvp_75"}

\* C14: an Init that waits for the backend, or has failed in it, has not
\* called Lock, holds neither side of vpLock and has changed nothing; while
\* it waits, a HasQuorum call at RLock enters at once unless another Init
\* is between Lock and Unlock, and no writer stands in the way of the
\* readers otherwise.
C14_BackendCallOutsideLock ==
    /\ \A p \in Procs :
          (pc[p] = "Init_63" \/ (InitDone(p) /\ loc[p].backendErr # ErrNil))
              => /\ p \notin vpLock.writer
                 /\ p \notin vpLock.readers \cup vpLock.blocked
                 /\ ~loc[p].lockTaken
    /\ (\A r \in Procs : pc[r] \notin WriterSection)
          => /\ RLockFree
             /\ \A q \in Procs :
                   pc[q] = "HasQuorum_90"
                       => ENABLED (HasQuorumRLock(q) /\ pc'[q] = "HasQuorum_94")

\* C14's case: one goroutine is in the backend call of Init while another
\* holds the read lock with a positive answer from the snapshot installed
\* before.
C14_Witness ==
    \E p, q \in Procs :
        /\ pc[p] = "Init_63"
        /\ pc[q] = "HasQuorum_91"
        /\ q \in vpLock.readers
        /\ ~validatorsVotingPower.isNil
        /\ loc[q].ret = TRUE

\* The positions of a HasQuorum call from its RLock to its return.
ReaderSection ==
    {"HasQuorum_90", "HasQuorum_90w", "HasQuorum_94", "HasQuorum_100",
     "HasQuorum_91"}

\* C15: a HasQuorum call waits at RLock only while an Init holds or is
\* acquiring the write lock, never for another reader; and with fair
\* scheduling every HasQuorum call, and every Init whose backend call has
\* returned a map, completes.
C15_NoStarvation ==
    /\ [](\A p \in Procs :
            (pc[p] = "HasQuorum_90w" /\ p \notin vpLock.readers)
                => /\ p \in vpLock.blocked
                   /\ \E w \in Procs :
                         vpLock.writer = {w} /\ pc[w] \in WriterSection)
    /\ \A p \in Procs : (pc[p] \in ReaderSection) ~> (pc[p] = "done")
    /\ \A p \in Procs :
          (pc[p] \in {"scvp_74"} \cup WriterSection) ~> (pc[p] = "done")

\* C15's case: two HasQuorum calls hold the read lock at the same time.
C15_Witness ==
    \E p, q \in Procs :
        /\ p # q
        /\ {p, q} \subseteq vpLock.readers
        /\ pc[p] \in {"HasQuorum_94", "HasQuorum_100", "HasQuorum_91"}
        /\ pc[q] \in {"HasQuorum_94", "HasQuorum_100", "HasQuorum_91"}

\* C16: a successful Init stores the map the backend returned as it is,
\* with the threshold of its total, and nothing of the map stored before:
\* a HasQuorum call afterwards sums the weights of the stored map alone, so
\* an address of an earlier map that is no key of the stored one adds 0.
C16_SnapshotReplaced ==
    /\ \A p \in Procs :
          (loc[p].op = "Init" /\ loc[p].err = ErrNil)
              => /\ pc[p] \in {"scvp_83", "scvp_75"}
                     => validatorsVotingPower = loc[p].vvp
                 /\ pc[p] = "scvp_75"
                     => quorumSize = Threshold(TotalPower(loc[p].vvp))
    /\ \A r \in Procs :
          (pc[r] = "HasQuorum_91" /\ ~validatorsVotingPower.isNil)
              => /\ loc[r].messageVotePower
                        = SumOver(validatorsVotingPower.kv,
                                  Known(validatorsVotingPower, loc[r].sendersAddrs))
                 /\ loc[r].ret <=> loc[r].messageVotePower >= quorumSize

\* C16's case: one goroutine has returned from the Init that installed
\* three validators, a later Init has installed one of them alone, and a
\* HasQuorum call over all three sums the weight of that one.
C16_Witness ==
    \E q, r \in Procs :
        /\ InitDone(q)
        /\ loc[q].err = ErrNil
        /\ loc[q].vvp = EqualValidators
        /\ validatorsVotingPower = MakeMap([a \in {"A"} |-> 1])
        /\ pc[r] = "HasQuorum_91"
        /\ loc[r].sendersAddrs = Addrs
        /\ loc[r].messageVotePower = 1

\* C17: NewValidatorManager calls GetMinerAddress once and no other call
\* ever does; a manager exists only when the backend gave an address, and
\* that address is its miner address through every later call; when the
\* backend gave an error, the constructor returns that error and no
\* manager, so nothing is ever called or stored.
C17_MinerAddressFixed ==
    /\ [](construction.state = "new"
            => construction.minerCalls = 0 /\ \A p \in Procs : pc[p] = "idle")
    /\ [](construction.state # "new" => construction.minerCalls = 1)
    /\ [](construction.state = "ok"
            => /\ construction.backendErr = ErrNil
               /\ construction.err = ErrNil
               /\ minerAddress = construction.backendAddr)
    /\ [](construction.backendErr # ErrNil
            => /\ construction.state = "failed"
               /\ construction.err = construction.backendErr
               /\ \A p \in Procs : pc[p] = "idle"
               /\ validatorsVotingPower.isNil)
    /\ [][construction.state = "ok"
            => minerAddress' = minerAddress /\ construction' = construction]_vars

\* C17's case: the manager was constructed with miner address B and a
\* later Init has installed a voting power map.
C17_Witness ==
    /\ construction.state = "ok"
    /\ minerAddress = "B"
    /\ \E p \in Procs : InitDone(p) /\ loc[p].err = ErrNil
    /\ ~validatorsVotingPower.isNil

\* C18: nothing but HasPrepareQuorum writes to the log, and a call of it
\* writes at most one entry: one for a missing proposal in the prepare
\* phase, one for a prepare message from the proposer, and none when the
\* proposal is there and no prepare message is from the proposer.
C18_LogOnlyInconsistencies ==
    \A p \in Procs :
        /\ Len(loc[p].logged) <= 1
        /\ loc[p].op \in {"", "Init", "HasQuorum"} => loc[p].logged = <<>>
        /\ WellFormedPrepare(p) => loc[p].logged = <<>>
        /\ loc[p].logged # <<>>
              => \/ /\ HasPrepareQuorumCalled(p)
                    /\ loc[p].proposalMessage = <<>>
                    /\ loc[p].stateName = "prepare"
                    /\ loc[p].logged = <<LogProposalNotSet>>
                 \/ /\ HasPrepareQuorumCalled(p)
                    /\ ProposerAmongPrepares(p)
                    /\ loc[p].logged = <<LogProposerAmongSigners>>

\* C18's case: a call with two prepare messages from the proposer has
\* written one entry.
C18_Witness ==
    \E p \in Procs :
        /\ HasPrepareQuorumCalled(p)
        /\ pc[p] = "done"
        /\ loc[p].proposalMessage # <<>>
        /\ Len(loc[p].msgs) = 2
        /\ \A i \in 1..2 : loc[p].msgs[i].From = loc[p].proposalMessage[1].From
        /\ loc[p].logged = <<LogProposerAmongSigners>>

\* C19: HasPrepareQuorum answers true only when some Init has installed a
\* map, the proposal is there, no prepare message is from the proposer and,
\* when HasQuorum read them, the stored weights of the proposer and the
\* prepare senders reached the stored threshold; before any successful
\* Init it answers false whatever its arguments.
C19_PrepareQuorumOnlyIf ==
    \A p \in Procs :
        /\ (HasPrepareQuorumCalled(p) /\ loc[p].ret = TRUE)
              => /\ everInstalled
                 /\ loc[p].proposalMessage # <<>>
                 /\ ~ProposerAmongPrepares(p)
                 /\ loc[p].hasQuorumCalls = 1
                 /\ \E W \in loc[p].readMaps, q \in loc[p].readQuorum :
                       /\ ~W.isNil
                       /\ SumOver(W.kv, Known(W, ProposerAndPrepareSenders(p)))
                              >= q
        /\ (HasPrepareQuorumCalled(p) /\ pc[p] = "done" /\ ~everInstalled)
              => loc[p].ret = FALSE

\* C19's case: a call outside the prepare phase has answered true.
C19_Witness ==
    \E p \in Procs :
        /\ HasPrepareQuorumCalled(p)
        /\ pc[p] = "done"
        /\ loc[p].stateName = "newRound"
        /\ loc[p].msgs # <<>>
        /\ loc[p].ret = TRUE

\* C20: when no stored weight is negative, a sender set that has quorum
\* keeps it when senders are added; and on every initialized manager the
\* set of all its validators has quorum and the empty set has not.
C20_MonotoneAndExtremes ==
    \A p \in Procs :
        pc[p] = "HasQuorum_91"
            => /\ (loc[p].ret /\ NonNegative(validatorsVotingPower))
                     => \A S \in SUBSET Addrs :
                           loc[p].sendersAddrs \subseteq S
                               => HasQuorumResult(validatorsVotingPower,
                                                  quorumSize, S)
               /\ (~validatorsVotingPower.isNil
                      /\ DOMAIN validatorsVotingPower.kv \subseteq loc[p].sendersAddrs)
                     => loc[p].ret
               /\ (~validatorsVotingPower.isNil /\ loc[p].sendersAddrs = {})
                     => ~loc[p].ret

\* C20's case: one validator alone has quorum among three, and is asked
\* about by itself.
C20_Witness ==
    \E p \in Procs :
        /\ pc[p] = "HasQuorum_91"
        /\ validatorsVotingPower = HeavyValidator
        /\ loc[p].sendersAddrs = {"A"}
        /\ loc[p].ret = TRUE

====
